---- MODULE Spec2Model ----
(***************************************************************************)
(* cbuildrt: a sandbox runner.  main() creates a user+PID namespace, maps  *)
(* one uid/gid, forks init; run_init() builds the mount view, chroots,     *)
(* forks the target command and reaps children; exit codes flow            *)
(* target -> init -> outer.                                                *)
(*                                                                         *)
(* The model has three program processes (outer, init, child = the forked  *)
(* grandchild that execs the target) and the kernel objects they act on:   *)
(* the user namespace's id maps, the mount table of init's mount           *)
(* namespace, and the process table of the PID namespace.                  *)
(*                                                                         *)
(* Environment of Spec: every system call of the program may fail; the     *)
(* target may exit with any code, be killed by a signal, fork descendants  *)
(* that outlive it; writes to stdout succeed; the host sends no signal to  *)
(* the outer process or to init; no process asks the kernel for a pid of   *)
(* its choice.  SpecHostKill adds a host that kills init with a signal;    *)
(* SpecFair adds fair scheduling of the program's own processes.           *)
(***************************************************************************)
EXTENDS Integers, Sequences, FiniteSets, TLC

(* ------------------------------ bounds -------------------------------- *)
\* longest bindMounts list of a specification document
MaxBinds == 2
\* forks performed by the target and its descendants in one run
MaxForks == 2
\* pids of the namespace are 1 (init) and 2..MaxPid: room for the child of
\* init and for every process the target and its descendants create
MaxPid == MaxForks + 2

(* ------------------------------ paths --------------------------------- *)
\* A path is its list of components and whether it starts with "/".
AbsPath(c) == [abs |-> TRUE, c |-> c]
RelPath(c) == [abs |-> FALSE, c |-> c]

\* Path::join with a relative right-hand side.
Join(p, c) == [abs |-> p.abs, c |-> p.c \o c]

\* Path::join as the library defines it: an absolute rhs replaces lhs.
concat_plain_join(lhs, rhs) ==
    [ok |-> TRUE, p |-> IF rhs.abs THEN rhs ELSE Join(lhs, rhs.c)]

\* concat_absolute: rhs.strip_prefix("/").unwrap() panics (ok = FALSE) when
\* rhs does not start with "/"; otherwise rhs is appended below lhs.
concat_absolute(lhs, rhs) ==
    IF rhs.abs
    THEN [ok |-> TRUE, p |-> Join(lhs, rhs.c)]
    ELSE [ok |-> FALSE, p |-> lhs]

(* --------------------- the mount table (kernel) ----------------------- *)
\* A mount: the mount it is attached to (parent) and the dentry there (mp),
\* the filesystem it shows (fs) from which directory on (root), and its
\* per-mount read-only flag.  A location is a pair (mount, dentry).
HostFs == [type |-> "hostfs", id |-> 0]
HostMounts ==
    << [parent |-> 0, mp |-> <<>>, fs |-> HostFs, root |-> <<>>,
        ro |-> FALSE, rec |-> FALSE] >>
HostRoot == [m |-> 1, d |-> <<>>]
\* working directory the tool is started in
HostCwd == [m |-> 1, d |-> <<"work">>]

RECURSIVE CrossMounts(_, _, _)
\* follow the mounts stacked on dentry d of mount m to the topmost one
CrossMounts(T, m, d) ==
    LET ks == {k \in DOMAIN T : T[k].parent = m /\ T[k].mp = d}
    IN  IF ks = {} THEN [m |-> m, d |-> d]
        ELSE LET k == CHOOSE x \in ks : \A y \in ks : y <= x
             IN  CrossMounts(T, k, T[k].root)

RECURSIVE Walk(_, _, _)
\* path walk: one component at a time, crossing mount points
Walk(T, loc, comps) ==
    IF comps = <<>> THEN loc
    ELSE Walk(T, CrossMounts(T, loc.m, loc.d \o <<Head(comps)>>), Tail(comps))

Resolve(T, root, cwd, path) ==
    Walk(T, IF path.abs THEN root ELSE cwd, path.c)

\* what a location shows: the filesystem and the directory in it
ContentAt(T, loc) == [fs |-> T[loc.m].fs, d |-> loc.d]

\* mount(src, tgt, MS_BIND [| MS_REC]): a new mount of the source's
\* filesystem subtree on the target location; it inherits the source
\* mount's flags, MS_RDONLY in the call is ignored.
BindMountAt(T, src, tgt, rec) ==
    Append(T, [parent |-> tgt.m, mp |-> tgt.d, fs |-> T[src.m].fs,
               root |-> src.d, ro |-> T[src.m].ro, rec |-> rec])

\* mount(_, tgt, MS_REMOUNT | MS_BIND | flags): only on the root of a mount
CanRemount(T, tgt) == tgt.d = T[tgt.m].root /\ T[tgt.m].parent # 0
RemountAt(T, tgt, flags) ==
    [T EXCEPT ![tgt.m].ro = ("MS_RDONLY" \in flags)]

\* mount(None, tgt, fstype): a fresh instance of the filesystem
NewFsMountAt(T, tgt, fstype) ==
    Append(T, [parent |-> tgt.m, mp |-> tgt.d,
               fs |-> [type |-> fstype, id |-> Len(T) + 1],
               root |-> <<>>, ro |-> FALSE, rec |-> FALSE])

\* a write through a location fails with EROFS on a read-only mount
WriteResult(T, loc) == IF T[loc.m].ro THEN "EROFS" ELSE "ok"

(* ------------------------ user namespace (kernel) --------------------- *)
\* The text written to /proc/self/uid_map or gid_map by
\* format!("{} {} 1", id, eid): three decimal fields.
IdMapLineSwapped(id, eid) == <<eid, id, 1>>
IdMapLine(id, eid) == <<id, eid, 1>>

\* The kernel reads a map line as: first id inside the namespace, first id
\* outside it, length of the range.
MapInside(line) == line[1]
MapOutside(line) == line[2]
MapCount(line) == line[3]

\* id inside the namespace -> kernel (host) id; -1 when the id is unmapped
ToKernelId(map, id) ==
    IF map # <<>> /\ id >= MapInside(map) /\ id < MapInside(map) + MapCount(map)
    THEN MapOutside(map) + (id - MapInside(map))
    ELSE -1

\* kernel id -> id seen inside the namespace; unmapped ids show as the
\* overflow id 65534
FromKernelId(map, kid) ==
    IF map # <<>> /\ kid >= MapOutside(map) /\ kid < MapOutside(map) + MapCount(map)
    THEN MapInside(map) + (kid - MapOutside(map))
    ELSE 65534

\* A process without privilege in the parent namespace may only map its
\* own effective id, in one line of length 1; host root may map anything.
MapWriteAllowed(line, writerId, privileged) ==
    \/ privileged
    \/ MapOutside(line) = writerId /\ MapCount(line) = 1

(* ------------------------------ inputs -------------------------------- *)
Rootfs == AbsPath(<<"sandbox">>)
BindEntries ==
    { [source |-> AbsPath(<<"host", "a">>), destination |-> AbsPath(<<"data">>)],
      [source |-> AbsPath(<<"host", "b">>), destination |-> AbsPath(<<"data", "x">>)],
      [source |-> AbsPath(<<"host", "a">>), destination |-> RelPath(<<"data">>)] }
BindLists == UNION {[1..n -> BindEntries] : n \in 0..MaxBinds}
Users == {[uid |-> 0, gid |-> 0], [uid |-> 1000, gid |-> 100]}
HostIds == {[uid |-> 0, gid |-> 0], [uid |-> 1000, gid |-> 1000]}
HostPATH == "/opt/host/bin:/usr/bin"

\* struct Config
Configs ==
    { [rootfs |-> Rootfs, user |-> u, process |-> [args |-> <<"make">>],
       bind_mounts |-> b] : u \in Users, b \in BindLists }
NoConfig ==
    [rootfs |-> RelPath(<<>>), user |-> [uid |-> 0, gid |-> 0],
     process |-> [args |-> <<>>], bind_mounts |-> <<>>]

\* the command line and the document it names
Documents ==
    { [st |-> "ok", cfg |-> c] : c \in Configs }
    \cup { [st |-> s, cfg |-> NoConfig] : s \in {"noarg", "unreadable", "malformed"} }

(* --------------------------- exit statuses ---------------------------- *)
\* exit status of a Rust process that panics
PanicCode == 101
\* clap's exit status for a usage error (1 in clap 2, 2 in clap 3)
ClapUsageCodes == {1, 2}

NoStatus == [k |-> "none", code |-> 0]
Running == [k |-> "run", code |-> 0]
Exited(code) == [k |-> "exited", code |-> code % 256]
Signaled == [k |-> "signaled", code |-> 0]
Terminated(st) == st.k \in {"exited", "signaled"}

\* codes the target command, and its descendants, may exit with
TargetCodes == {0, 1, 101}
DescCodes == {0, 7}
\* errno values of a failed execvp: ENOENT, EACCES
ExecErrnos == {2, 13}

VARIABLES
    doc,           \* input: the command line and the cbuild.json document
    host,          \* input: effective uid/gid the tool is started with
    cfg,           \* main: cfg
    euid, egid,    \* main: euid, egid
    pcOuter,       \* position of the outer process in main
    pcInit,        \* position of init in run_init
    pcChild,       \* position of the forked child of init
    devIdx,        \* run_init: index of the dev_overlays loop
    bmIdx,         \* run_init: index of the bind_mounts loop
    childPid,      \* run_init: child_pid
    ops,           \* system calls made so far, in order, with their result
    out,           \* lines printed so far (fd 1 stdout, fd 2 stderr)
    userns,        \* the new user namespace: setgroups, uid_map, gid_map
    cred,          \* kernel uid/gid of outer, init and child
    env,           \* PATH of outer, init and child
    hostMnt,       \* mount table of the host's mount namespace
    initMnt,       \* mount table of init's own mount namespace
    mntns,         \* which mount namespace init is in: "host" or "private"
    fsctx,         \* root and working directory of init and of the child
    procs,         \* processes of the PID namespace other than init
    lastPid,       \* pid allocator cursor of the PID namespace
    forks,         \* forks done by the target and its descendants
    outerStatus, initStatus,   \* how outer / init terminated
    trackedStatus, \* how the child forked by init terminated
    discarded,     \* wait statuses init's loop has dropped
    execd          \* outcome of execvp: "no", "ok" or "failed"

vars == << doc, host, cfg, euid, egid, pcOuter, pcInit, pcChild, devIdx, bmIdx,
           childPid, ops, out, userns, cred, env, hostMnt, initMnt, mntns,
           fsctx, procs, lastPid, forks, outerStatus, initStatus,
           trackedStatus, discarded, execd >>

inputVars == << doc, host >>
outerVars == << cfg, euid, egid, pcOuter, outerStatus >>
initVars == << pcInit, devIdx, bmIdx, childPid, initStatus, discarded >>
mountVars == << hostMnt, initMnt, mntns, fsctx >>
procVars == << procs, lastPid, forks, trackedStatus, execd, pcChild >>

NoProcs == [p \in {} |-> Running]

Init ==
    /\ doc \in Documents
    /\ host \in HostIds
    /\ cfg = NoConfig
    /\ euid = 0 /\ egid = 0
    /\ pcOuter = "load" /\ pcInit = "none" /\ pcChild = "none"
    /\ devIdx = 1 /\ bmIdx = 1 /\ childPid = 0
    /\ ops = <<>> /\ out = <<>>
    /\ userns = [created |-> FALSE, pidns |-> FALSE, setgroups |-> "allow",
                 uid_map |-> <<>>, gid_map |-> <<>>]
    /\ cred = [outer |-> host, init |-> host, child |-> host]
    /\ env = [outer |-> HostPATH, init |-> HostPATH, child |-> HostPATH]
    /\ hostMnt = HostMounts /\ initMnt = HostMounts /\ mntns = "host"
    /\ fsctx = [init |-> [root |-> HostRoot, cwd |-> HostCwd],
                child |-> [root |-> HostRoot, cwd |-> HostCwd]]
    /\ procs = NoProcs /\ lastPid = 1 /\ forks = 0
    /\ outerStatus = Running /\ initStatus = NoStatus
    /\ trackedStatus = NoStatus /\ discarded = 0 /\ execd = "no"

(* ------------------------------ helpers ------------------------------- *)
Op(p, call, tgt, flags, ok) ==
    [p |-> p, call |-> call, tgt |-> tgt, flags |-> flags, ok |-> ok]
Line(p, fd, msg) == [p |-> p, fd |-> fd, msg |-> msg]
NoPath == RelPath(<<>>)

\* a panic of the outer process (expect / unwrap / panic!): message on
\* stderr, exit status 101
OuterPanics(msg) ==
    /\ pcOuter' = "done"
    /\ outerStatus' = Exited(PanicCode)
    /\ out' = Append(out, Line("outer", 2, msg))

(* ------------------------- main: outer process ------------------------ *)
\* make_config_from_cli fails on a document that cannot be opened or
\* parsed
ConfigFatalOpenOnly(st) == st = "unreadable"
ConfigFatal(st) == st \in {"unreadable", "malformed"}

\* let cfg = make_config_from_cli();
LoadConfig ==
    /\ pcOuter = "load"
    /\ IF doc.st = "noarg"
       THEN /\ \E c \in ClapUsageCodes : outerStatus' = Exited(c)
            /\ pcOuter' = "done"
            /\ out' = Append(out, Line("outer", 2, "usage"))
            /\ UNCHANGED cfg
       ELSE IF ConfigFatal(doc.st)
       THEN /\ OuterPanics(IF doc.st = "unreadable"
                           THEN "unable to open cbuild.json"
                           ELSE "failed to parse cbuild.json")
            /\ UNCHANGED cfg
       ELSE /\ cfg' = doc.cfg
            /\ pcOuter' = "unshare"
            /\ UNCHANGED << outerStatus, out >>
    /\ UNCHANGED << inputVars, euid, egid, initVars, mountVars, procVars,
                    ops, userns, cred, env >>

\* geteuid, getegid, unshare, with the map writes following directly
OuterUnshareSkipsSetgroups ==
    /\ pcOuter = "unshare"
    /\ euid' = cred.outer.uid
    /\ egid' = cred.outer.gid
    /\ \E ok \in BOOLEAN :
        /\ ops' = Append(ops, Op("outer", "unshare", NoPath,
                                 {"CLONE_NEWUSER", "CLONE_NEWPID"}, ok))
        /\ IF ok
           THEN /\ userns' = [userns EXCEPT !.created = TRUE, !.pidns = TRUE]
                /\ pcOuter' = "uid_map"
                /\ UNCHANGED << outerStatus, out >>
           ELSE /\ OuterPanics("failed to unshare()")
                /\ UNCHANGED userns
    /\ UNCHANGED << inputVars, cfg, initVars, mountVars, procVars, cred, env >>
\* geteuid, getegid, unshare(CLONE_NEWUSER | CLONE_NEWPID)
OuterUnshare ==
    /\ pcOuter = "unshare"
    /\ euid' = cred.outer.uid
    /\ egid' = cred.outer.gid
    /\ \E ok \in BOOLEAN :
        /\ ops' = Append(ops, Op("outer", "unshare", NoPath,
                                 {"CLONE_NEWUSER", "CLONE_NEWPID"}, ok))
        /\ IF ok
           THEN /\ userns' = [userns EXCEPT !.created = TRUE, !.pidns = TRUE]
                /\ pcOuter' = "setgroups"
                /\ UNCHANGED << outerStatus, out >>
           ELSE /\ OuterPanics("failed to unshare()")
                /\ UNCHANGED userns
    /\ UNCHANGED << inputVars, cfg, initVars, mountVars, procVars, cred, env >>

\* std::fs::write("/proc/self/setgroups", "deny")
WriteSetgroups ==
    /\ pcOuter = "setgroups"
    /\ \E ok \in BOOLEAN :
        /\ ok => userns.created /\ userns.gid_map = <<>>
        /\ ops' = Append(ops, Op("outer", "write_setgroups", NoPath, {"deny"}, ok))
        /\ IF ok
           THEN /\ userns' = [userns EXCEPT !.setgroups = "deny"]
                /\ pcOuter' = "uid_map"
                /\ UNCHANGED << outerStatus, out >>
           ELSE /\ OuterPanics("unable to write setgroups file")
                /\ UNCHANGED userns
    /\ UNCHANGED << inputVars, cfg, euid, egid, initVars, mountVars, procVars,
                    cred, env >>

\* std::fs::write("/proc/self/uid_map", format!("{} {} 1", cfg.user.uid, euid))
WriteUidMap ==
    /\ pcOuter = "uid_map"
    /\ LET line == IdMapLine(cfg.user.uid, euid) IN
       \E ok \in BOOLEAN :
        /\ ok => /\ userns.created /\ userns.uid_map = <<>>
                 /\ MapWriteAllowed(line, host.uid, host.uid = 0)
        /\ ops' = Append(ops, Op("outer", "write_uid_map", NoPath, {}, ok))
        /\ IF ok
           THEN /\ userns' = [userns EXCEPT !.uid_map = line]
                /\ pcOuter' = "gid_map"
                /\ UNCHANGED << outerStatus, out >>
           ELSE /\ OuterPanics("unable to write uid_map file")
                /\ UNCHANGED userns
    /\ UNCHANGED << inputVars, cfg, euid, egid, initVars, mountVars, procVars,
                    cred, env >>

\* std::fs::write("/proc/self/gid_map", format!("{} {} 1", cfg.user.gid, egid))
WriteGidMap ==
    /\ pcOuter = "gid_map"
    /\ LET line == IdMapLine(cfg.user.gid, egid) IN
       \E ok \in BOOLEAN :
        /\ ok => /\ userns.created /\ userns.gid_map = <<>>
                 /\ MapWriteAllowed(line, host.gid, host.uid = 0)
                 /\ (userns.setgroups = "deny" \/ host.uid = 0)
        /\ ops' = Append(ops, Op("outer", "write_gid_map", NoPath, {}, ok))
        /\ IF ok
           THEN /\ userns' = [userns EXCEPT !.gid_map = line]
                /\ pcOuter' = "setuid"
                /\ UNCHANGED << outerStatus, out >>
           ELSE /\ OuterPanics("unable to write gid_map file")
                /\ UNCHANGED userns
    /\ UNCHANGED << inputVars, cfg, euid, egid, initVars, mountVars, procVars,
                    cred, env >>

\* setuid(cfg.user.uid): the id must be mapped; the process holds
\* CAP_SETUID in its new namespace
SetUid ==
    /\ pcOuter = "setuid"
    /\ LET kid == ToKernelId(userns.uid_map, cfg.user.uid) IN
       \E ok \in BOOLEAN :
        /\ ok => kid # -1
        /\ ops' = Append(ops, Op("outer", "setuid", NoPath, {}, ok))
        /\ IF ok
           THEN /\ cred' = [cred EXCEPT !.outer.uid = kid]
                /\ pcOuter' = "setgid"
                /\ UNCHANGED << outerStatus, out >>
           ELSE /\ OuterPanics("failed to set UID")
                /\ UNCHANGED cred
    /\ UNCHANGED << inputVars, cfg, euid, egid, initVars, mountVars, procVars,
                    userns, env >>

\* setgid(cfg.user.gid)
SetGid ==
    /\ pcOuter = "setgid"
    /\ LET kid == ToKernelId(userns.gid_map, cfg.user.gid) IN
       \E ok \in BOOLEAN :
        /\ ok => kid # -1
        /\ ops' = Append(ops, Op("outer", "setgid", NoPath, {}, ok))
        /\ IF ok
           THEN /\ cred' = [cred EXCEPT !.outer.gid = kid]
                /\ pcOuter' = "fork"
                /\ UNCHANGED << outerStatus, out >>
           ELSE /\ OuterPanics("failed to set GID")
                /\ UNCHANGED cred
    /\ UNCHANGED << inputVars, cfg, euid, egid, initVars, mountVars, procVars,
                    userns, env >>

\* fork(): the child is init, pid 1 of the new PID namespace; the parent
\* prints init's pid and goes on to waitpid
OuterFork ==
    /\ pcOuter = "fork"
    /\ \E ok \in BOOLEAN :
        /\ ops' = Append(ops, Op("outer", "fork", NoPath, {}, ok))
        /\ IF ok
           THEN /\ pcInit' = "unshare"
                /\ initStatus' = Running
                /\ cred' = [cred EXCEPT !.init = cred.outer]
                /\ env' = [env EXCEPT !.init = env.outer]
                /\ pcOuter' = "wait"
                /\ out' = Append(out, Line("outer", 1, "PID init is"))
                /\ UNCHANGED outerStatus
           ELSE /\ OuterPanics("failed to fork from cbuildrt")
                /\ UNCHANGED << pcInit, initStatus, cred, env >>
    /\ UNCHANGED << inputVars, cfg, euid, egid, devIdx, bmIdx, childPid,
                    discarded, mountVars, procVars, userns >>

(* --------------------------- run_init: setup -------------------------- *)
dev_overlays == <<"tty", "null", "zero", "full", "random", "urandom">>
\* what std::fs::canonicalize("/etc/resolv.conf") returns on the host
ResolvConfReal == AbsPath(<<"run", "resolv.conf">>)

\* flags of the second mount call on rootfs
RemountFlagsNoRdonly == {"MS_REMOUNT", "MS_BIND"}
RemountFlags == {"MS_REMOUNT", "MS_BIND", "MS_RDONLY"}

\* the mount table of the namespace init is in, and locations as init
\* resolves them
CurMnt == IF mntns = "private" THEN initMnt ELSE hostMnt
Loc(path) == Resolve(CurMnt, fsctx.init.root, fsctx.init.cwd, path)
SetCurMnt(T) ==
    IF mntns = "private"
    THEN initMnt' = T /\ UNCHANGED hostMnt
    ELSE hostMnt' = T /\ UNCHANGED initMnt

\* a failure of init during setup reported with exit(1)
InitExitsOne(msg) ==
    /\ pcInit' = "done"
    /\ initStatus' = Exited(1)
    /\ out' = Append(out, Line("init", 2, msg))
\* a panic of init during setup: message on stderr, exit status 101
InitPanics(msg) ==
    /\ pcInit' = "done"
    /\ initStatus' = Exited(PanicCode)
    /\ out' = Append(out, Line("init", 2, msg))

\* nix::mount::mount(...).expect(msg) on target tgtc (a concat_absolute
\* result): the call may fail, and succeeds only where the kernel allows
\* it; on success the table becomes T2 and init advances by adv
MountCall(tgtc, flags, allowed, T2, adv, msg) ==
    IF ~tgtc.ok
    THEN /\ InitPanics("called Result::unwrap() on an Err value")
         /\ UNCHANGED << ops, hostMnt, initMnt, devIdx, bmIdx >>
    ELSE \E ok \in BOOLEAN :
          /\ ok => allowed
          /\ ops' = Append(ops, Op("init", "mount", tgtc.p, flags, ok))
          /\ IF ok
             THEN /\ SetCurMnt(T2)
                  /\ adv
                  /\ UNCHANGED << initStatus, out >>
             ELSE /\ InitPanics(msg)
                  /\ UNCHANGED << hostMnt, initMnt, devIdx, bmIdx >>

Plain(path) == [ok |-> TRUE, p |-> path]
Goto(pc) == pcInit' = pc /\ UNCHANGED << devIdx, bmIdx >>

\* unshare(CLONE_NEWNS) with its result ignored
InitUnshareUnchecked ==
    /\ pcInit = "unshare"
    /\ \E ok \in BOOLEAN :
        /\ ops' = Append(ops, Op("init", "unshare", NoPath, {"CLONE_NEWNS"}, ok))
        /\ pcInit' = "bind_root"
        /\ UNCHANGED << initStatus, out >>
        /\ IF ok
           THEN /\ mntns' = "private"
                /\ initMnt' = hostMnt
           ELSE UNCHANGED << mntns, initMnt >>
    /\ UNCHANGED << inputVars, outerVars, devIdx, bmIdx, childPid, discarded, hostMnt,
                    fsctx, procVars, userns, cred, env >>
\* unshare(CLONE_NEWNS): init gets a private copy of the host's mounts
InitUnshare ==
    /\ pcInit = "unshare"
    /\ \E ok \in BOOLEAN :
        /\ ops' = Append(ops, Op("init", "unshare", NoPath, {"CLONE_NEWNS"}, ok))
        /\ IF ok
           THEN /\ mntns' = "private"
                /\ initMnt' = hostMnt
                /\ pcInit' = "bind_root"
                /\ UNCHANGED << initStatus, out >>
           ELSE /\ InitPanics("failed to unshare()")
                /\ UNCHANGED << mntns, initMnt >>
    /\ UNCHANGED << inputVars, outerVars, devIdx, bmIdx, childPid, discarded, hostMnt,
                    fsctx, procVars, userns, cred, env >>

\* mount(rootfs, rootfs, MS_BIND)
BindRootfs ==
    /\ pcInit = "bind_root"
    /\ MountCall(Plain(cfg.rootfs), {"MS_BIND"}, TRUE,
                 BindMountAt(CurMnt, Loc(cfg.rootfs), Loc(cfg.rootfs), FALSE),
                 Goto("remount_ro"), "failed to bind mount rootfs to itself")
    /\ UNCHANGED << inputVars, outerVars, childPid, discarded, mntns, fsctx, procVars,
                    userns, cred, env >>

\* mount(rootfs, rootfs, MS_REMOUNT | MS_BIND | MS_RDONLY)
RemountRootfs ==
    /\ pcInit = "remount_ro"
    /\ MountCall(Plain(cfg.rootfs), RemountFlags, CanRemount(CurMnt, Loc(cfg.rootfs)),
                 RemountAt(CurMnt, Loc(cfg.rootfs), RemountFlags),
                 Goto("dev"), "failed to make rootfs read-only")
    /\ UNCHANGED << inputVars, outerVars, childPid, discarded, mntns, fsctx, procVars,
                    userns, cred, env >>

\* for f in dev_overlays: mount(/dev/f, rootfs/dev/f, MS_BIND)
MountDevice ==
    /\ pcInit = "dev"
    /\ LET f == dev_overlays[devIdx]
           ca == concat_absolute(cfg.rootfs, AbsPath(<<"dev">>))
           tgtc == [ok |-> ca.ok, p |-> Join(ca.p, <<f>>)]
       IN  MountCall(tgtc, {"MS_BIND"}, TRUE,
                     BindMountAt(CurMnt, Loc(AbsPath(<<"dev", f>>)), Loc(tgtc.p), FALSE),
                     /\ devIdx' = devIdx + 1
                     /\ pcInit' = IF devIdx = Len(dev_overlays) THEN "resolv" ELSE "dev"
                     /\ UNCHANGED bmIdx,
                     "failed to mount device")
    /\ UNCHANGED << inputVars, outerVars, childPid, discarded, mntns, fsctx, procVars,
                    userns, cred, env >>

\* mount(canonicalize("/etc/resolv.conf").unwrap(), rootfs/etc/resolv.conf,
\*       MS_BIND)
MountResolvConf ==
    /\ pcInit = "resolv"
    /\ \E canon \in BOOLEAN :
        IF canon
        THEN LET tgtc == concat_absolute(cfg.rootfs, AbsPath(<<"etc", "resolv.conf">>))
             IN  MountCall(tgtc, {"MS_BIND"}, TRUE,
                           BindMountAt(CurMnt, Loc(ResolvConfReal), Loc(tgtc.p), FALSE),
                           Goto("devpts"), "failed to mount /etc/resolv.conf")
        ELSE /\ InitPanics("called Result::unwrap() on an Err value")
             /\ UNCHANGED << ops, hostMnt, initMnt, devIdx, bmIdx >>
    /\ UNCHANGED << inputVars, outerVars, childPid, discarded, mntns, fsctx, procVars,
                    userns, cred, env >>

\* mount(None, rootfs + where, fstype, empty flags)
MountFresh(where, fstype, next, msg) ==
    LET tgtc == concat_absolute(cfg.rootfs, AbsPath(where))
    IN  /\ MountCall(tgtc, {}, TRUE, NewFsMountAt(CurMnt, Loc(tgtc.p), fstype),
                     Goto(next), msg)
        /\ UNCHANGED << inputVars, outerVars, childPid, discarded, mntns, fsctx, procVars,
                        userns, cred, env >>

MountDevPts ==
    /\ pcInit = "devpts"
    /\ MountFresh(<<"dev", "pts">>, "devpts", "shm", "failed to mount /dev/pts")

MountDevShm ==
    /\ pcInit = "shm"
    /\ MountFresh(<<"dev", "shm">>, "tmpfs", "run", "failed to mount /dev/shm")

MountRun ==
    /\ pcInit = "run"
    /\ MountFresh(<<"run">>, "tmpfs", "tmp", "failed to mount /run")

MountTmp ==
    /\ pcInit = "tmp"
    /\ MountFresh(<<"tmp">>, "tmpfs",
                  IF cfg.bind_mounts = <<>> THEN "chroot" ELSE "binds",
                  "failed to mount /tmp")

\* the bind mounts taken from the end of the list first
UserBindMountReversed ==
    /\ pcInit = "binds"
    /\ LET bm == cfg.bind_mounts[Len(cfg.bind_mounts) + 1 - bmIdx]
           tgtc == concat_absolute(cfg.rootfs, bm.destination)
       IN  MountCall(tgtc, {"MS_BIND", "MS_REC"}, TRUE,
                     BindMountAt(CurMnt, Loc(bm.source), Loc(tgtc.p), TRUE),
                     /\ bmIdx' = bmIdx + 1
                     /\ pcInit' = IF bmIdx = Len(cfg.bind_mounts) THEN "chroot" ELSE "binds"
                     /\ UNCHANGED devIdx,
                     "failed to perform bind mount")
    /\ UNCHANGED << inputVars, outerVars, childPid, discarded, mntns, fsctx, procVars,
                    userns, cred, env >>
\* for bm in &cfg.bind_mounts:
\*     mount(bm.source, concat_absolute(rootfs, bm.destination),
\*           MS_BIND | MS_REC)
UserBindMount ==
    /\ pcInit = "binds"
    /\ LET bm == cfg.bind_mounts[bmIdx]
           tgtc == concat_absolute(cfg.rootfs, bm.destination)
       IN  MountCall(tgtc, {"MS_BIND", "MS_REC"}, TRUE,
                     BindMountAt(CurMnt, Loc(bm.source), Loc(tgtc.p), TRUE),
                     /\ bmIdx' = bmIdx + 1
                     /\ pcInit' = IF bmIdx = Len(cfg.bind_mounts) THEN "chroot" ELSE "binds"
                     /\ UNCHANGED devIdx,
                     "failed to perform bind mount")
    /\ UNCHANGED << inputVars, outerVars, childPid, discarded, mntns, fsctx, procVars,
                    userns, cred, env >>

\* chroot(rootfs) with the fork following directly
ChrootSkipsChdir ==
    /\ pcInit = "chroot"
    /\ \E ok \in BOOLEAN :
        /\ ops' = Append(ops, Op("init", "chroot", cfg.rootfs, {}, ok))
        /\ IF ok
           THEN /\ fsctx' = [fsctx EXCEPT !.init.root = Loc(cfg.rootfs)]
                /\ pcInit' = "fork"
                /\ UNCHANGED << initStatus, out >>
           ELSE /\ InitPanics("failed to chroot()")
                /\ UNCHANGED fsctx
    /\ UNCHANGED << inputVars, outerVars, devIdx, bmIdx, childPid, discarded, hostMnt,
                    initMnt, mntns, procVars, userns, cred, env >>
\* chroot(rootfs)
Chroot ==
    /\ pcInit = "chroot"
    /\ \E ok \in BOOLEAN :
        /\ ops' = Append(ops, Op("init", "chroot", cfg.rootfs, {}, ok))
        /\ IF ok
           THEN /\ fsctx' = [fsctx EXCEPT !.init.root = Loc(cfg.rootfs)]
                /\ pcInit' = "chdir"
                /\ UNCHANGED << initStatus, out >>
           ELSE /\ InitPanics("failed to chroot()")
                /\ UNCHANGED fsctx
    /\ UNCHANGED << inputVars, outerVars, devIdx, bmIdx, childPid, discarded, hostMnt,
                    initMnt, mntns, procVars, userns, cred, env >>

\* chdir("/") with its result dropped
ChdirUnchecked ==
    /\ pcInit = "chdir"
    /\ \E ok \in BOOLEAN :
        /\ ops' = Append(ops, Op("init", "chdir", AbsPath(<<>>), {}, ok))
        /\ fsctx' = IF ok THEN [fsctx EXCEPT !.init.cwd = Loc(AbsPath(<<>>))] ELSE fsctx
        /\ pcInit' = "fork"
        /\ UNCHANGED << initStatus, out >>
    /\ UNCHANGED << inputVars, outerVars, devIdx, bmIdx, childPid, discarded, hostMnt,
                    initMnt, mntns, procVars, userns, cred, env >>

\* chdir("/")
Chdir ==
    /\ pcInit = "chdir"
    /\ \E ok \in BOOLEAN :
        /\ ops' = Append(ops, Op("init", "chdir", AbsPath(<<>>), {}, ok))
        /\ IF ok
           THEN /\ fsctx' = [fsctx EXCEPT !.init.cwd = Loc(AbsPath(<<>>))]
                /\ pcInit' = "fork"
                /\ UNCHANGED << initStatus, out >>
           ELSE /\ InitPanics("failed to chdir() to root directory")
                /\ UNCHANGED fsctx
    /\ UNCHANGED << inputVars, outerVars, devIdx, bmIdx, childPid, discarded, hostMnt,
                    initMnt, mntns, procVars, userns, cred, env >>

(* ------------------- the PID namespace (kernel) ----------------------- *)
\* procs maps each pid in use (running, or terminated and not yet reaped)
\* to its parent, its status and whether it is the child init forked.
\* The kernel hands pids out in increasing order and, once it wraps, starts
\* again above its reserved low pids; the pid of init's first child (2) lies
\* among them and is never handed out a second time.
FreePids == {f \in (2..MaxPid) \ DOMAIN procs : f > lastPid \/ f > 2}
Min(S) == CHOOSE x \in S : \A y \in S : x <= y
\* pids are handed out cyclically after the last one allocated
AllocPid ==
    IF \E f \in FreePids : f > lastPid
    THEN Min({f \in FreePids : f > lastPid})
    ELSE Min(FreePids)

Children(p) == {q \in DOMAIN procs : procs[q].ppid = p}
Zombies(p) == {q \in Children(p) : Terminated(procs[q].st)}
Without(z) == [q \in DOMAIN procs \ {z} |-> procs[q]]
TrackedPids == {q \in DOMAIN procs : procs[q].tracked}

\* process p terminates with status st: it stays in the table until its
\* parent reaps it, and its children are reparented to init (pid 1)
Terminate(p, st) ==
    /\ procs' = [q \in DOMAIN procs |->
                    IF q = p THEN [procs[q] EXCEPT !.st = st]
                    ELSE IF procs[q].ppid = p THEN [procs[q] EXCEPT !.ppid = 1]
                    ELSE procs[q]]
    /\ trackedStatus' = IF procs[p].tracked THEN st ELSE trackedStatus

\* init terminates: the kernel kills every process left in the namespace
\* and reaps them before init's parent is notified
InitTerminates(st) ==
    /\ pcInit' = "done"
    /\ initStatus' = st
    /\ procs' = NoProcs
    /\ pcChild' = IF pcChild = "none" THEN "none" ELSE "gone"
    /\ trackedStatus' =
          IF \E q \in TrackedPids : procs[q].st.k = "run"
          THEN Signaled ELSE trackedStatus

(* ------------------- run_init: fork, exec, reap ----------------------- *)
RootStylePath == "/usr/local/sbin:/usr/local/bin:/usr/sbin:/usr/bin:/sbin:/bin"
UserStylePath == "/usr/local/bin:/usr/bin:/bin"

\* the PATH value the forked child sets before execvp
DefaultPathInverted(uid) == IF uid # 0 THEN RootStylePath ELSE UserStylePath
DefaultPath(uid) == IF uid = 0 THEN RootStylePath ELSE UserStylePath

\* exit status of the forked child when execvp failed with errno
ExecFailStatusErrno(errno) == errno
ExecFailStatus(errno) == 1

\* the reap loop's test on a wait status
ReapMatchesAnyPid(st, pid, child_pid) == st.k = "exited"
\* the test with the shape of the status left out
ReapMatchesAnyStatus(st, pid, child_pid) == pid = child_pid
ReapMatches(st, pid, child_pid) == st.k = "exited" /\ pid = child_pid

\* fork() in init, PATH already reset in init before it
InitForkAfterPathReset ==
    /\ pcInit = "fork"
    /\ \E ok \in BOOLEAN :
        /\ ok => FreePids # {}
        /\ ops' = Append(ops, Op("init", "fork", NoPath, {}, ok))
        /\ IF ok
           THEN /\ procs' = (AllocPid :> [ppid |-> 1, st |-> Running, tracked |-> TRUE])
                              @@ procs
                /\ childPid' = AllocPid
                /\ lastPid' = AllocPid
                /\ pcChild' = "setpath"
                /\ pcInit' = "wait"
                /\ cred' = [cred EXCEPT !.child = cred.init]
                /\ env' = [env EXCEPT !.init = DefaultPath(cfg.user.uid),
                                      !.child = DefaultPath(cfg.user.uid)]
                /\ fsctx' = [fsctx EXCEPT !.child = fsctx.init]
                /\ UNCHANGED << initStatus, out >>
           ELSE /\ InitPanics("failed to fork from init")
                /\ env' = [env EXCEPT !.init = DefaultPath(cfg.user.uid)]
                /\ UNCHANGED << procs, childPid, lastPid, pcChild, cred, fsctx >>
    /\ UNCHANGED << inputVars, outerVars, devIdx, bmIdx, discarded, hostMnt,
                    initMnt, mntns, forks, trackedStatus, execd, userns >>
\* fork() in init
InitFork ==
    /\ pcInit = "fork"
    /\ \E ok \in BOOLEAN :
        /\ ok => FreePids # {}
        /\ ops' = Append(ops, Op("init", "fork", NoPath, {}, ok))
        /\ IF ok
           THEN /\ procs' = (AllocPid :> [ppid |-> 1, st |-> Running, tracked |-> TRUE])
                              @@ procs
                /\ childPid' = AllocPid
                /\ lastPid' = AllocPid
                /\ pcChild' = "setpath"
                /\ pcInit' = "wait"
                /\ cred' = [cred EXCEPT !.child = cred.init]
                /\ env' = [env EXCEPT !.child = env.init]
                /\ fsctx' = [fsctx EXCEPT !.child = fsctx.init]
                /\ UNCHANGED << initStatus, out >>
           ELSE /\ InitPanics("failed to fork from init")
                /\ UNCHANGED << procs, childPid, lastPid, pcChild, cred, env, fsctx >>
    /\ UNCHANGED << inputVars, outerVars, devIdx, bmIdx, discarded, hostMnt,
                    initMnt, mntns, forks, trackedStatus, execd, userns >>

\* child: std::env::set_var("PATH", ...)
ChildSetPath ==
    /\ pcChild = "setpath"
    /\ env' = [env EXCEPT !.child = DefaultPath(cfg.user.uid)]
    /\ pcChild' = "exec"
    /\ UNCHANGED << inputVars, outerVars, initVars, mountVars, procs, lastPid,
                    forks, trackedStatus, execd, ops, out, userns, cred >>

\* child: execvp(args[0], args); when it returns, print and exit(1)
ChildExec ==
    /\ pcChild = "exec"
    /\ \E ok \in BOOLEAN :
        /\ ops' = Append(ops, Op("child", "execvp", NoPath, {}, ok))
        /\ IF ok
           THEN /\ pcChild' = "target"
                /\ execd' = "ok"
                /\ UNCHANGED << procs, trackedStatus, out >>
           ELSE /\ \E errno \in ExecErrnos, p \in TrackedPids :
                     Terminate(p, Exited(ExecFailStatus(errno)))
                /\ out' = Append(out, Line("child", 1, "error when executing program"))
                /\ pcChild' = "gone"
                /\ execd' = "failed"
    /\ UNCHANGED << inputVars, outerVars, initVars, mountVars, lastPid, forks,
                    userns, cred, env >>

\* the loop with a failed wait() taken as the normal end of the run
InitWaitFailureExitsZero ==
    /\ pcInit = "wait"
    /\ IF Children(1) = {}
       THEN /\ InitTerminates(Exited(0))
            /\ UNCHANGED << out, discarded >>
       ELSE \E z \in Zombies(1) :
              IF ReapMatches(procs[z].st, z, childPid)
              THEN /\ InitTerminates(Exited(procs[z].st.code))
                   /\ out' = IF procs[z].st.code # 0
                             THEN Append(out, Line("init", 1, "child returned non-zero exit code"))
                             ELSE out
                   /\ UNCHANGED discarded
              ELSE /\ procs' = Without(z)
                   /\ discarded' = discarded + 1
                   /\ UNCHANGED << pcInit, initStatus, pcChild, trackedStatus, out >>
    /\ UNCHANGED << inputVars, outerVars, devIdx, bmIdx, childPid, mountVars,
                    lastPid, forks, execd, ops, userns, cred, env >>
\* one iteration of init's loop: wait(), then the test on the status
InitWait ==
    /\ pcInit = "wait"
    /\ IF Children(1) = {}
       THEN \* ECHILD: expect("failed to wait for children") panics
            /\ InitTerminates(Exited(PanicCode))
            /\ out' = Append(out, Line("init", 2, "failed to wait for children"))
            /\ UNCHANGED discarded
       ELSE \E z \in Zombies(1) :
              IF ReapMatches(procs[z].st, z, childPid)
              THEN /\ InitTerminates(Exited(procs[z].st.code))
                   /\ out' = IF procs[z].st.code # 0
                             THEN Append(out, Line("init", 1, "child returned non-zero exit code"))
                             ELSE out
                   /\ UNCHANGED discarded
              ELSE /\ procs' = Without(z)
                   /\ discarded' = discarded + 1
                   /\ UNCHANGED << pcInit, initStatus, pcChild, trackedStatus, out >>
    /\ UNCHANGED << inputVars, outerVars, devIdx, bmIdx, childPid, mountVars,
                    lastPid, forks, execd, ops, userns, cred, env >>

(* ------------------- the target and its descendants ------------------- *)
\* processes of the namespace that run code of the target command
CanAct(p) == procs[p].st.k = "run" /\ (procs[p].tracked => pcChild = "target")

ProcFork ==
    /\ forks < MaxForks
    /\ FreePids # {}
    /\ \E p \in DOMAIN procs :
        /\ CanAct(p)
        /\ procs' = (AllocPid :> [ppid |-> p, st |-> Running, tracked |-> FALSE])
                      @@ procs
    /\ lastPid' = AllocPid
    /\ forks' = forks + 1
    /\ UNCHANGED << inputVars, outerVars, initVars, mountVars, trackedStatus,
                    execd, pcChild, ops, out, userns, cred, env >>

ProcExit ==
    /\ \E p \in DOMAIN procs :
        /\ CanAct(p)
        /\ \E code \in IF procs[p].tracked THEN TargetCodes ELSE DescCodes :
              Terminate(p, Exited(code))
        /\ pcChild' = IF procs[p].tracked THEN "gone" ELSE pcChild
    /\ UNCHANGED << inputVars, outerVars, initVars, mountVars, lastPid, forks,
                    execd, ops, out, userns, cred, env >>

ProcKilled ==
    /\ \E p \in DOMAIN procs :
        /\ CanAct(p)
        /\ Terminate(p, Signaled)
        /\ pcChild' = IF procs[p].tracked THEN "gone" ELSE pcChild
    /\ UNCHANGED << inputVars, outerVars, initVars, mountVars, lastPid, forks,
                    execd, ops, out, userns, cred, env >>

\* a process of the target waits for one of its own terminated children
ProcReap ==
    /\ \E p \in DOMAIN procs :
        /\ CanAct(p)
        /\ \E z \in Zombies(p) : procs' = Without(z)
    /\ UNCHANGED << inputVars, outerVars, initVars, mountVars, lastPid, forks,
                    trackedStatus, execd, pcChild, ops, out, userns, cred, env >>

(* ------------------------ main: waitpid and exit ---------------------- *)
\* waitpid(init_pid, None) returns once init has terminated
WaitpidNoHang(st) == TRUE
WaitpidReturns(st) == Terminated(st)

\* the code main exits with for init's exit code
OuterExitCodeZero(code) == 0
OuterExitCode(code) == code

\* the wait with every status other than a normal exit treated as success
OuterWaitSignalAsZero ==
    /\ pcOuter = "wait"
    /\ WaitpidReturns(initStatus)
    /\ pcOuter' = "done"
    /\ IF initStatus.k = "exited"
       THEN /\ outerStatus' = Exited(OuterExitCode(initStatus.code))
            /\ UNCHANGED out
       ELSE /\ outerStatus' = Exited(0)
            /\ UNCHANGED out
    /\ UNCHANGED << inputVars, cfg, euid, egid, initVars, mountVars, procVars,
                    ops, userns, cred, env >>
OuterWait ==
    /\ pcOuter = "wait"
    /\ WaitpidReturns(initStatus)
    /\ pcOuter' = "done"
    /\ IF initStatus.k = "exited"
       THEN /\ outerStatus' = Exited(OuterExitCode(initStatus.code))
            /\ UNCHANGED out
       ELSE /\ outerStatus' = Exited(PanicCode)
            /\ out' = Append(out, Line("outer", 2, "waiting for init returned"))
    /\ UNCHANGED << inputVars, cfg, euid, egid, initVars, mountVars, procVars,
                    ops, userns, cred, env >>

Next ==
    \/ LoadConfig \/ OuterUnshare \/ WriteSetgroups \/ WriteUidMap \/ WriteGidMap
    \/ SetUid \/ SetGid \/ OuterFork \/ OuterWait
    \/ InitUnshare \/ BindRootfs \/ RemountRootfs \/ MountDevice
    \/ MountResolvConf \/ MountDevPts \/ MountDevShm \/ MountRun \/ MountTmp
    \/ UserBindMount \/ Chroot \/ Chdir \/ InitFork \/ InitWait
    \/ ChildSetPath \/ ChildExec
    \/ ProcFork \/ ProcExit \/ ProcKilled \/ ProcReap

Spec == Init /\ [][Next]_vars


(* ------------------ the steps taken by the program's code ------------- *)
\* the steps of each of the program's three processes
OuterStep ==
    \/ LoadConfig \/ OuterUnshare \/ WriteSetgroups \/ WriteUidMap \/ WriteGidMap
    \/ SetUid \/ SetGid \/ OuterFork \/ OuterWait
InitStep ==
    \/ InitUnshare \/ BindRootfs \/ RemountRootfs \/ MountDevice
    \/ MountResolvConf \/ MountDevPts \/ MountDevShm \/ MountRun \/ MountTmp
    \/ UserBindMount \/ Chroot \/ Chdir \/ InitFork \/ InitWait
ChildStep == ChildSetPath \/ ChildExec
\* every action but those of the target command and its descendants
ProgramStep == OuterStep \/ InitStep \/ ChildStep

\* Each process of the program that can take a step eventually takes one: a
\* system call that can return does return, and wait()/waitpid() return once
\* a child they wait for has terminated.  Nothing is assumed about the
\* target command and its descendants.
SpecFair ==
    Spec /\ WF_vars(OuterStep) /\ WF_vars(InitStep) /\ WF_vars(ChildStep)

(* --------------- a host that may kill init with a signal -------------- *)
\* init is an ordinary process of the host's PID namespace (main prints its
\* pid): a signal sent from there terminates it, and with it its namespace
HostKillsInit ==
    /\ pcInit \notin {"none", "done"}
    /\ InitTerminates(Signaled)
    /\ UNCHANGED << inputVars, outerVars, devIdx, bmIdx, childPid, discarded,
                    mountVars, lastPid, forks, execd, ops, out, userns, cred, env >>

NextHostKill == Next \/ HostKillsInit
SpecHostKill == Init /\ [][NextHostKill]_vars
(* ===================== what the target command sees =================== *)
\* effective uid/gid of the child as seen inside the user namespace
TargetUid == FromKernelId(userns.uid_map, cred.child.uid)
TargetGid == FromKernelId(userns.gid_map, cred.child.gid)

\* where component list c leads from the sandbox root, what is shown there,
\* and what a write there returns
SandboxLoc(c) == Walk(initMnt, fsctx.child.root, c)
SandboxContent(c) == ContentAt(initMnt, SandboxLoc(c))
SandboxWrite(c) == WriteResult(initMnt, SandboxLoc(c))

\* what a path shows on the host
HostContent(path) == ContentAt(hostMnt, Resolve(hostMnt, HostRoot, HostCwd, path))

IsPrefix(a, b) == Len(a) <= Len(b) /\ SubSeq(b, 1, Len(a)) = a

\* the system calls of a complete setup for configuration c, in order
MountOp(tgt, flags) == Op("init", "mount", tgt, flags, TRUE)
UnderRootfs(c, comps) == Join(c.rootfs, comps)
SetupOps(c) ==
    << Op("outer", "unshare", NoPath, {"CLONE_NEWUSER", "CLONE_NEWPID"}, TRUE),
       Op("outer", "write_setgroups", NoPath, {"deny"}, TRUE),
       Op("outer", "write_uid_map", NoPath, {}, TRUE),
       Op("outer", "write_gid_map", NoPath, {}, TRUE),
       Op("outer", "setuid", NoPath, {}, TRUE),
       Op("outer", "setgid", NoPath, {}, TRUE),
       Op("outer", "fork", NoPath, {}, TRUE),
       Op("init", "unshare", NoPath, {"CLONE_NEWNS"}, TRUE),
       MountOp(c.rootfs, {"MS_BIND"}),
       MountOp(c.rootfs, {"MS_REMOUNT", "MS_BIND", "MS_RDONLY"}) >>
    \o [i \in 1..6 |-> MountOp(UnderRootfs(c, <<"dev", dev_overlays[i]>>), {"MS_BIND"})]
    \o << MountOp(UnderRootfs(c, <<"etc", "resolv.conf">>), {"MS_BIND"}),
          MountOp(UnderRootfs(c, <<"dev", "pts">>), {}),
          MountOp(UnderRootfs(c, <<"dev", "shm">>), {}),
          MountOp(UnderRootfs(c, <<"run">>), {}),
          MountOp(UnderRootfs(c, <<"tmp">>), {}) >>
    \o [i \in 1..Len(c.bind_mounts) |->
          MountOp(UnderRootfs(c, c.bind_mounts[i].destination.c), {"MS_BIND", "MS_REC"})]
    \o << Op("init", "chroot", c.rootfs, {}, TRUE),
          Op("init", "chdir", AbsPath(<<>>), {}, TRUE),
          Op("init", "fork", NoPath, {}, TRUE) >>

\* a setup step has failed: a system call before execvp returned an error,
\* or an unwrap on the way to a mount call panicked
SetupFailed ==
    \/ \E i \in DOMAIN ops : ~ops[i].ok /\ ops[i].call # "execvp"
    \/ \E i \in DOMAIN out :
          out[i].p = "init" /\ out[i].msg = "called Result::unwrap() on an Err value"

(* ============================== claims ================================ *)

\* C1: when the target was exec'd and exited normally with code C, init
\* terminates only by exiting with C and the outer process exits only with
\* C, however many other children init reaped first.
C1_ExitCodePropagated ==
    (execd = "ok" /\ trackedStatus.k = "exited") =>
        /\ Terminated(initStatus) => initStatus = Exited(trackedStatus.code)
        /\ pcOuter = "done" => outerStatus = Exited(trackedStatus.code)
C1_Witness ==
    /\ execd = "ok" /\ trackedStatus = Exited(1)
    /\ discarded >= 1
    /\ pcOuter = "done" /\ outerStatus = Exited(1)

\* C2: the child reaches execvp only after every setup call, in order, has
\* succeeded and the namespace, maps, mounts, root and working directory
\* are all in place.
C2_ExecOnlyAfterFullSetup ==
    (pcChild = "exec" \/ execd # "no") =>
        /\ Len(ops) >= Len(SetupOps(doc.cfg))
        /\ SubSeq(ops, 1, Len(SetupOps(doc.cfg))) = SetupOps(doc.cfg)
        /\ ~SetupFailed
        /\ userns.created /\ userns.pidns /\ userns.setgroups = "deny"
        /\ userns.uid_map # <<>> /\ userns.gid_map # <<>>
        /\ mntns = "private"
        /\ Len(initMnt) = Len(HostMounts) + 12 + Len(doc.cfg.bind_mounts)
        /\ fsctx.child.root = Resolve(initMnt, HostRoot, HostCwd, doc.cfg.rootfs)
        /\ fsctx.child.cwd = fsctx.child.root
C2_Witness ==
    /\ execd = "ok"
    /\ Len(doc.cfg.bind_mounts) = MaxBinds
    /\ Len(ops) = Len(SetupOps(doc.cfg)) + 1

\* C3: when execvp fails, the child prints the diagnostic and exits with 1,
\* init terminates only by exiting with 1, and the outer process exits
\* with 1.
C3_ExecFailureYieldsOne ==
    execd = "failed" =>
        /\ trackedStatus = Exited(1)
        /\ \E i \in DOMAIN out :
              out[i] = Line("child", 1, "error when executing program")
        /\ Terminated(initStatus) => initStatus = Exited(1)
        /\ pcOuter = "done" => outerStatus = Exited(1)
C3_Witness ==
    execd = "failed" /\ pcOuter = "done" /\ outerStatus = Exited(1)

\* C4: once a setup step has failed, in the outer process or in init, the
\* outer process never ends with exit status 0.
C4_SetupFailureNonZero ==
    (SetupFailed /\ pcOuter = "done") =>
        outerStatus.k = "exited" /\ outerStatus.code # 0
C4_Witness ==
    /\ pcOuter = "done"
    /\ \E i \in DOMAIN ops : ops[i].p = "init" /\ ops[i].call = "mount" /\ ~ops[i].ok
    /\ outerStatus.code # 0

\* paths inside the sandbox that writes are tried on
SandboxPaths ==
    { <<>>, <<"etc">>, <<"etc", "passwd">>, <<"usr", "bin">>, <<"dev">>,
      <<"dev", "null">>, <<"dev", "pts">>, <<"dev", "shm">>,
      <<"etc", "resolv.conf">>, <<"run">>, <<"tmp">>, <<"tmp", "f">>,
      <<"data">>, <<"data", "x">>, <<"data", "y">> }
\* mount points the setup puts inside rootfs after making it read-only
Overlaid ==
    { <<"dev", dev_overlays[i]>> : i \in DOMAIN dev_overlays }
    \cup { <<"etc", "resolv.conf">>, <<"dev", "pts">>, <<"dev", "shm">>,
           <<"run">>, <<"tmp">> }
    \cup { doc.cfg.bind_mounts[i].destination.c : i \in DOMAIN doc.cfg.bind_mounts }

\* C5, as claimed: once the target runs, a write to any path under the
\* sandbox root fails.
C5_EveryWriteFails ==
    execd = "ok" => \A c \in SandboxPaths : SandboxWrite(c) # "ok"
\* C5, amended: once the target runs, a write fails with EROFS on every path
\* under the sandbox root that is not at or below a device, resolv.conf,
\* /dev/pts, /dev/shm, /run, /tmp or user bind mount point.
C5_RootfsMountReadOnly ==
    execd = "ok" =>
        \A c \in SandboxPaths :
            (\A o \in Overlaid : ~IsPrefix(o, c)) => SandboxWrite(c) = "EROFS"
C5_Witness ==
    /\ execd = "ok"
    /\ SandboxWrite(<<"etc", "passwd">>) = "EROFS"
    /\ SandboxWrite(<<"tmp", "f">>) = "ok"

\* entry i of the list is shadowed when a later entry is mounted at its
\* destination or above it
Shadowed(bms, i) ==
    \E j \in DOMAIN bms :
        j > i /\ IsPrefix(bms[j].destination.c, bms[i].destination.c)

\* C6, as claimed: once the target runs, every bind mount entry's
\* destination shows the content of that entry's source.
C6_EveryEntryVisible ==
    execd = "ok" =>
        \A i \in DOMAIN doc.cfg.bind_mounts :
            SandboxContent(doc.cfg.bind_mounts[i].destination.c)
                = HostContent(doc.cfg.bind_mounts[i].source)
\* C6, amended: once the target runs, the destination of every entry that
\* no later entry is mounted at or above shows the content of the entry's
\* source.
C6_UnshadowedEntryVisible ==
    execd = "ok" =>
        \A i \in DOMAIN doc.cfg.bind_mounts :
            ~Shadowed(doc.cfg.bind_mounts, i) =>
                SandboxContent(doc.cfg.bind_mounts[i].destination.c)
                    = HostContent(doc.cfg.bind_mounts[i].source)
C6_Witness ==
    /\ execd = "ok"
    /\ Len(doc.cfg.bind_mounts) = 2
    /\ doc.cfg.bind_mounts[1].destination = AbsPath(<<"data">>)
    /\ doc.cfg.bind_mounts[2].destination = AbsPath(<<"data", "x">>)
    /\ SandboxContent(<<"data">>) = [fs |-> HostFs, d |-> <<"host", "a">>]
    /\ SandboxContent(<<"data", "x">>) = [fs |-> HostFs, d |-> <<"host", "b">>]

\* C7: the maps written are the single lines "uid euid 1" and "gid egid 1",
\* and the target runs with the document's uid and gid whatever ids the
\* tool was started with.
C7_TargetIdentity ==
    /\ userns.uid_map # <<>> => userns.uid_map = <<doc.cfg.user.uid, host.uid, 1>>
    /\ userns.gid_map # <<>> => userns.gid_map = <<doc.cfg.user.gid, host.gid, 1>>
    /\ execd = "ok" =>
          /\ userns.uid_map # <<>> /\ userns.gid_map # <<>>
          /\ TargetUid = doc.cfg.user.uid
          /\ TargetGid = doc.cfg.user.gid
C7_Witness ==
    /\ execd = "ok"
    /\ host.uid = 1000 /\ host.gid = 1000
    /\ doc.cfg.user = [uid |-> 0, gid |-> 0]
    /\ TargetUid = 0 /\ TargetGid = 0

\* C8: at execvp and in the target, PATH is the root-style list exactly
\* when user.uid is 0 and the user-style list otherwise, never the PATH the
\* tool was started with.
C8_PathFromUid ==
    (pcChild = "exec" \/ execd # "no") =>
        /\ doc.cfg.user.uid = 0 =>
              env.child = "/usr/local/sbin:/usr/local/bin:/usr/sbin:/usr/bin:/sbin:/bin"
        /\ doc.cfg.user.uid # 0 => env.child = "/usr/local/bin:/usr/bin:/bin"
        /\ env.child # HostPATH
C8_Witness ==
    /\ execd = "ok" /\ doc.cfg.user.uid = 1000
    /\ env.child = "/usr/local/bin:/usr/bin:/bin"

\* C9: once the outer process has exited, the PID namespace holds no
\* terminated process that was not reaped.
C9_NoZombieAfterExit ==
    pcOuter = "done" => \A p \in DOMAIN procs : ~Terminated(procs[p].st)
C9_Witness ==
    /\ pcOuter = "done" /\ execd = "ok"
    /\ forks >= 1 /\ discarded >= 1

\* C10: when the document cannot be opened or parsed, no system call of the
\* setup is ever made: no namespace, map, identity, fork or mount.
C10_BadDocumentNoSideEffect ==
    doc.st \in {"unreadable", "malformed"} =>
        /\ ops = <<>>
        /\ ~userns.created /\ userns.uid_map = <<>> /\ userns.gid_map = <<>>
        /\ cred.outer = host
        /\ pcInit = "none" /\ mntns = "host"
        /\ hostMnt = HostMounts /\ initMnt = HostMounts
C10_Witness ==
    /\ doc.st = "malformed" /\ pcOuter = "done"
    /\ outerStatus = Exited(PanicCode) /\ ops = <<>>

\* the system calls of one process, in the order it made them
OpsOf(p) == SelectSeq(ops, LAMBDA o : o.p = p)
\* the identity bootstrap of main: call and flags of each step
IdentityBootstrap ==
    << << "unshare", {"CLONE_NEWUSER", "CLONE_NEWPID"} >>,
       << "write_setgroups", {"deny"} >>,
       << "write_uid_map", {} >>,
       << "write_gid_map", {} >>,
       << "setuid", {} >>,
       << "setgid", {} >>,
       << "fork", {} >> >>

\* C11: the outer process makes its calls in the order unshare(NEWUSER |
\* NEWPID) in one call, setgroups deny, uid_map, gid_map, setuid, setgid,
\* fork; each call is made only after the one before it succeeded, and the
\* kernel state follows the same order.
C11_IdentityBootstrapOrder ==
    LET os == OpsOf("outer") IN
    /\ Len(os) <= Len(IdentityBootstrap)
    /\ \A i \in DOMAIN os :
          /\ os[i].call = IdentityBootstrap[i][1]
          /\ os[i].flags = IdentityBootstrap[i][2]
          /\ i > 1 => os[i - 1].ok
    /\ userns.setgroups = "deny" => userns.created /\ userns.pidns
    /\ userns.uid_map # <<>> => userns.setgroups = "deny"
    /\ userns.gid_map # <<>> => userns.uid_map # <<>>
    /\ pcOuter \in {"setgid", "fork", "wait"} => userns.gid_map # <<>>
    /\ pcInit # "none" =>
          /\ Len(os) = Len(IdentityBootstrap)
          /\ \A i \in DOMAIN os : os[i].ok
C11_Witness ==
    /\ pcInit = "unshare" /\ pcOuter = "wait"
    /\ host.uid # 0
    /\ Len(OpsOf("outer")) = Len(IdentityBootstrap)

\* the mount calls made so far, in order
MountOps == SelectSeq(ops, LAMBDA o : o.call = "mount")

\* C12: every mount and the chroot are made by init, never by the outer
\* process, and only after init's unshare(CLONE_NEWNS) succeeded, so the
\* host's mount table is never changed; the first mount is the plain bind of
\* rootfs onto itself, the second the bind+remount+read-only of the same
\* mount point, and every other mount comes after both succeeded.
C12_MountsInPrivateNamespace ==
    LET ms == MountOps
        unshared == {j \in DOMAIN ops :
                        ops[j] = Op("init", "unshare", NoPath, {"CLONE_NEWNS"}, TRUE)}
    IN  /\ \A i \in DOMAIN ops :
              ops[i].call \in {"mount", "chroot"} =>
                  /\ ops[i].p = "init"
                  /\ \E j \in unshared : j < i
        /\ hostMnt = HostMounts
        /\ initMnt # HostMounts => mntns = "private"
        /\ fsctx.init.root # HostRoot => mntns = "private"
        /\ Len(ms) >= 1 =>
              /\ ms[1].tgt = cfg.rootfs
              /\ ms[1].flags = {"MS_BIND"}
        /\ Len(ms) >= 2 =>
              /\ ms[1].ok
              /\ ms[2].tgt = cfg.rootfs
              /\ ms[2].flags = {"MS_REMOUNT", "MS_BIND", "MS_RDONLY"}
        /\ Len(ms) >= 3 => ms[2].ok
C12_Witness ==
    /\ Len(MountOps) >= 3
    /\ \E i \in DOMAIN ops : ops[i].call = "chroot" /\ ops[i].ok
    /\ hostMnt = HostMounts /\ initMnt # HostMounts

\* number of mounts run_init makes before the user bind mounts
BuiltinMounts ==
    Len(SelectSeq(SetupOps([cfg EXCEPT !.bind_mounts = << >>]),
                  LAMBDA o : o.call = "mount"))
\* the mounts of init's table made with MS_REC, in the order they were made
RecMounts == SelectSeq(initMnt, LAMBDA m : m.rec)

\* C13: the user bind mounts are made one per entry of bind_mounts in list
\* order, none skipped, repeated or reordered, each with MS_BIND | MS_REC
\* from the entry's source onto rootfs joined with its destination, after
\* every built-in mount and before chroot; the mount for entry i+1 is
\* attempted only after the one for entry i succeeded.
C13_UserBindMountsInOrder ==
    LET n == BuiltinMounts
        ms == MountOps
        rs == RecMounts
    IN  /\ \A k \in DOMAIN ms :
              IF k <= n
              THEN "MS_REC" \notin ms[k].flags
              ELSE /\ k - n <= Len(cfg.bind_mounts)
                   /\ ms[k].tgt = Join(cfg.rootfs, cfg.bind_mounts[k - n].destination.c)
                   /\ ms[k].flags = {"MS_BIND", "MS_REC"}
                   /\ ms[k - 1].ok
        /\ \A i \in DOMAIN rs :
              /\ ms[n + i].ok
              /\ rs[i].fs = HostFs
              /\ rs[i].root = cfg.bind_mounts[i].source.c
        /\ pcInit = "binds" => Len(rs) = bmIdx - 1
        /\ \A j \in DOMAIN ops :
              ops[j].call = "chroot" =>
                  /\ j = Len(IdentityBootstrap) + 1 + n + Len(cfg.bind_mounts) + 1
                  /\ Len(ms) = n + Len(cfg.bind_mounts)
                  /\ \A k \in DOMAIN ms : ms[k].ok
                  /\ Len(rs) = Len(cfg.bind_mounts)
C13_Witness ==
    /\ Len(cfg.bind_mounts) = MaxBinds
    /\ cfg.bind_mounts[1] # cfg.bind_mounts[2]
    /\ Len(RecMounts) = MaxBinds
    /\ \E j \in DOMAIN ops : ops[j].call = "chroot"

\* a process whose root directory was changed while its working directory
\* still lies where it was before
RootChangedCwdNotReset(ctx) == ctx.root # HostRoot /\ ctx.cwd # ctx.root

\* C14: init calls chroot(rootfs) and then chdir("/"), after every mount and
\* before the fork that creates the target's process; init never forks, and
\* the child never runs or calls execvp, with the root changed and the
\* working directory not reset.
C14_ChrootThenChdirBeforeFork ==
    LET mounts == {k \in DOMAIN ops : ops[k].call = "mount"} IN
    /\ \A j \in DOMAIN ops :
          (ops[j].p = "init" /\ ops[j].call = "fork") =>
              /\ j > 2
              /\ ops[j - 2] = Op("init", "chroot", cfg.rootfs, {}, TRUE)
              /\ ops[j - 1] = Op("init", "chdir", AbsPath(<<>>), {}, TRUE)
              /\ \A k \in mounts : k < j - 2
    /\ \A j \in DOMAIN ops :
          ops[j].call = "chdir" => ops[j - 1].call = "chroot" /\ ops[j - 1].ok
    /\ pcInit \in {"fork", "wait"} =>
          /\ fsctx.init.root = Resolve(initMnt, HostRoot, HostCwd, cfg.rootfs)
          /\ fsctx.init.cwd = fsctx.init.root
    /\ pcChild # "none" =>
          /\ fsctx.child.root = Resolve(initMnt, HostRoot, HostCwd, cfg.rootfs)
          /\ ~RootChangedCwdNotReset(fsctx.child)
    /\ RootChangedCwdNotReset(fsctx.init) => pcInit \in {"chdir", "done"}
C14_Witness ==
    /\ pcInit = "wait" /\ pcChild = "setpath"
    /\ fsctx.init.root # HostRoot
    /\ fsctx.child.cwd = fsctx.child.root
    /\ fsctx.child.root = fsctx.init.root

\* C15: in init's reap loop, reaping a child whose pid differs from the
\* tracked pid never ends init and never supplies its exit code: init stays
\* in the loop; a wait() that returned a child ends init only when that
\* child has the tracked pid and exited normally, and init then exits with
\* that child's code.
C15_OnlyTrackedPidEndsLoop ==
    [][ pcInit = "wait" =>
           /\ (pcInit' = "done" /\ Children(1) # {}) =>
                 /\ childPid \in Zombies(1)
                 /\ procs[childPid].st.k = "exited"
                 /\ initStatus' = Exited(procs[childPid].st.code)
           /\ \A z \in Zombies(1) \ {childPid} :
                 procs' = Without(z) =>
                     /\ pcInit' = "wait"
                     /\ initStatus' = initStatus
                     /\ discarded' = discarded + 1 ]_vars
C15_Witness ==
    /\ pcInit = "wait" /\ initStatus = Running
    /\ discarded >= 1
    /\ childPid \in DOMAIN procs /\ procs[childPid].st.k = "run"

\* C16: the outer process finishes after its fork only once init has
\* terminated; when init exited normally it exits with init's code, and when
\* the wait reports anything else (init killed by a signal) it panics: its
\* status is the non-zero panic status, never 0.
C16_OuterFollowsInitStatus ==
    (pcOuter = "done" /\ initStatus # NoStatus) =>
        /\ Terminated(initStatus)
        /\ initStatus.k = "exited" => outerStatus = Exited(initStatus.code)
        /\ initStatus.k # "exited" =>
              /\ outerStatus = Exited(PanicCode)
              /\ outerStatus.code # 0
              /\ \E i \in DOMAIN out :
                    out[i] = Line("outer", 2, "waiting for init returned")
C16_Witness ==
    /\ pcOuter = "done"
    /\ initStatus = Signaled
    /\ outerStatus = Exited(PanicCode)

\* init is blocked in wait() after it reaped the tracked child as killed by
\* a signal, the outer process is blocked in waitpid(), and the processes
\* left in the namespace are all running
WaitingOnOrphans ==
    /\ pcInit = "wait" /\ pcOuter = "wait"
    /\ trackedStatus = Signaled /\ TrackedPids = {}
    /\ Children(1) # {}
    /\ \A q \in DOMAIN procs : procs[q].st.k = "run"

\* C17: when init reaps the tracked child and its status is "killed by a
\* signal", the loop's test does not match: init does not exit on that
\* status and goes back to waiting.  From then on, while processes reparented
\* to init keep running, no step of the program is possible: init and the
\* outer process wait for as long as those processes run, which may be
\* forever.
C17_SignaledChildLeavesInitWaiting ==
    /\ [][ ( /\ pcInit = "wait"
             /\ childPid \in Zombies(1)
             /\ procs[childPid].st.k = "signaled"
             /\ childPid \notin DOMAIN procs' ) =>
                 /\ pcInit' = "wait"
                 /\ initStatus' = Running
                 /\ pcOuter' = "wait"
                 /\ procs' = Without(childPid) ]_vars
    /\ [](WaitingOnOrphans => ~ENABLED ProgramStep)
C17_Witness ==
    /\ WaitingOnOrphans
    /\ execd = "ok"
    /\ discarded >= 1

\* C18 as stated: from the moment init forks, init's own PATH has the fixed
\* value chosen from user.uid.
C18_InitPathResetBeforeFork ==
    (pcInit = "wait" \/ pcChild # "none") => env.init = DefaultPath(cfg.user.uid)

\* C18 amended: PATH is reset by the forked child, after the fork and before
\* execvp.  At the fork init's PATH and the new child's PATH are still the
\* inherited one; the child's PATH has the fixed value chosen from user.uid
\* from the call of execvp on; init's own PATH is never changed.
C18_PathResetInChildAfterFork ==
    /\ env.init = HostPATH
    /\ env.outer = HostPATH
    /\ pcChild \in {"none", "setpath"} => env.child = HostPATH
    /\ (pcChild = "exec" \/ execd # "no") =>
          /\ env.child = DefaultPath(cfg.user.uid)
          /\ env.child # env.init
C18_Witness ==
    /\ pcInit = "wait" /\ pcChild = "setpath"
    /\ env.init = HostPATH /\ env.child = HostPATH
    /\ ops[Len(ops)] = Op("init", "fork", NoPath, {}, TRUE)

\* C19 as stated: the status of a setup failure, which is the panic status,
\* is never the status of a run whose exec'd target exited normally.
C19_SetupStatusNeverPropagated ==
    (execd = "ok" /\ trackedStatus.k = "exited" /\ pcOuter = "done") =>
        outerStatus # Exited(PanicCode)

\* C19 amended: a setup failure ends the tool with the panic status 101,
\* which is not 0; a run whose exec'd target exited normally with code C
\* ends with that same status exactly when C is 101, so the two kinds of run
\* are told apart by the status for every C but 101, C = 0 included.
C19_SetupStatusDistinctFromZero ==
    /\ (SetupFailed /\ pcOuter = "done") =>
          /\ outerStatus = Exited(PanicCode)
          /\ outerStatus # Exited(0)
    /\ (execd = "ok" /\ trackedStatus.k = "exited" /\ pcOuter = "done") =>
          /\ ~SetupFailed
          /\ outerStatus = Exited(PanicCode) <=> trackedStatus.code = PanicCode
C19_Witness ==
    /\ pcOuter = "done" /\ pcInit = "done"
    /\ ops[Len(ops)] = Op("init", "unshare", NoPath, {"CLONE_NEWNS"}, FALSE)
    /\ outerStatus = Exited(PanicCode)

\* no process of the PID namespace other than init is running
NoChildRunning == \A q \in DOMAIN procs : procs[q].st.k # "run"

\* C20: when init is in its loop and has no children left, as after it
\* reaped the tracked child with a killed-by-signal status and every other
\* child, its next step is the panic "failed to wait for children" with the
\* non-zero panic status, and the outer process exits with that status; if
\* from some point on no process of the namespace but init is running, the
\* outer process eventually exits; and it exits with a non-zero status when
\* the tracked child was killed by a signal.
C20_TerminatesOnceChildrenDo ==
    /\ [][ (pcInit = "wait" /\ Children(1) = {} /\ pcInit' # pcInit) =>
               /\ initStatus' = Exited(PanicCode)
               /\ out' = Append(out, Line("init", 2, "failed to wait for children")) ]_vars
    /\ []( (pcOuter = "done" /\ trackedStatus = Signaled) =>
               /\ initStatus = Exited(PanicCode)
               /\ outerStatus = Exited(PanicCode)
               /\ outerStatus # Exited(0) )
    /\ (<>[]NoChildRunning) => <>(pcOuter = "done")
C20_Witness ==
    /\ pcOuter = "done"
    /\ execd = "ok" /\ trackedStatus = Signaled
    /\ discarded >= 2
    /\ outerStatus = Exited(PanicCode)

====
